---- MODULE Spec2Model ----
(***************************************************************************)
(* Model of the financial core of jotapn/financeiro: the Lancamento        *)
(* (ledger entry) validation and save path, ContaBancaria.saldo_atual, the *)
(* admin bulk actions and gerar_lancamentos_recorrentes.                   *)
(*                                                                         *)
(* Conventions.  Primary keys are positive integers and None is NULL (0).  *)
(* A date is the integer year*10000 + month*100 + day, so that comparing   *)
(* dates is comparing integers.  A Decimal(12,2) amount is an integer      *)
(* number of cents.  A CharField is modelled by its length.  The ledger    *)
(* table is the sequence lancamentos, a row's position being its pk.       *)
(***************************************************************************)
EXTENDS Integers, Sequences, FiniteSets, TLC

VARIABLES
    hoje,         \* timezone.now().date()
    clientes,     \* clientes.Cliente rows: the set of their pks
    servicos,     \* contratos.Servico rows: pk -> [nome]
    contratos,    \* contratos.Contrato rows: pk -> [cliente, data_inicio, data_fim, ativo, dia_vencimento]
    itens,        \* contratos.ItemContrato rows: pk -> [contrato, servico, tipo, valor_acordado]
    lancamentos,  \* financeiro.Lancamento rows that are committed
    ultima,       \* outcome of the call of gerar_lancamentos_recorrentes that just returned
    execs,        \* the calls of gerar_lancamentos_recorrentes in progress (SpecConc)
    inst          \* a Lancamento instance in memory and what was last done to it (SpecClean)

vars == <<hoje, clientes, servicos, contratos, itens, lancamentos, ultima, execs,
          inst>>

-----------------------------------------------------------------------------
(* Bounds of the model *)

\* largest number of rows of the ledger table
MaxLanc == 2

-----------------------------------------------------------------------------
(* Values *)

NULL == 0

Min(a, b) == IF a < b THEN a ELSE b

\* datetime.date(ano, mes, dia) as an integer
Data(ano, mes, dia) == ano * 10000 + mes * 100 + dia
Ano(d) == d \div 10000
Mes(d) == (d \div 100) % 100
Dia(d) == d % 100

\* calendar.isleap
Bissexto(ano) == (ano % 4 = 0) /\ ((ano % 100 # 0) \/ (ano % 400 = 0))

\* calendar.monthrange(ano, mes)[1]
MonthRange(ano, mes) ==
    IF mes = 2 THEN (IF Bissexto(ano) THEN 29 ELSE 28)
    ELSE IF mes \in {4, 6, 9, 11} THEN 30 ELSE 31

\* datetime.date raises ValueError for a day outside 1..monthrange
DataValida(ano, mes, dia) ==
    /\ mes \in 1..12
    /\ dia >= 1
    /\ dia <= MonthRange(ano, mes)

\* the due date with the billing day taken as it is, not clamped to the month
DataVencimentoSemMin(dia_vencimento, referencia) ==
    IF DataValida(Ano(referencia), Mes(referencia), dia_vencimento)
    THEN Data(Ano(referencia), Mes(referencia), dia_vencimento)
    ELSE NULL

\* services._data_vencimento_para_mes; NULL stands for the ValueError of date()
DataVencimentoParaMes(dia_vencimento, referencia) ==
    LET ultimo_dia == MonthRange(Ano(referencia), Mes(referencia))
        dia == Min(dia_vencimento, ultimo_dia)
    IN  IF DataValida(Ano(referencia), Mes(referencia), dia)
        THEN Data(Ano(referencia), Mes(referencia), dia)
        ELSE NULL

\* the elements of a set of pks in ascending order
RECURSIVE Ordenado(_)
Ordenado(S) ==
    IF S = {} THEN <<>>
    ELSE LET m == CHOOSE x \in S : \A y \in S : x <= y
         IN  <<m>> \o Ordenado(S \ {m})

-----------------------------------------------------------------------------
(* Reference rows that no operation of the model changes *)

\* financeiro.Categoria rows: pk -> tipo
categorias == (1 :> "ENTRADA") @@ (2 :> "SAIDA")

\* financeiro.ContaBancaria rows: pk -> saldo_inicial (cents)
contas == (1 :> 0) @@ (2 :> 5000)

\* financeiro.CentroCusto pks
centros == {1}

\* Lancamento.descricao: CharField(max_length=255)
DescricaoMaxLength == 255

\* len(" - ") + len(f"{competencia:%m/%Y}")
SufixoDescricao == 10

-----------------------------------------------------------------------------
(* Lancamento: validation and save *)

\* clean with the two fill steps in the other order: the client is looked up
\* before the contract has been derived from the item
CleanClienteAntes(l) ==
    LET l1 == IF l.contrato # NULL /\ l.cliente = NULL
              THEN [l EXCEPT !.cliente = contratos[l.contrato].cliente]
              ELSE l
        l2 == IF l1.item_contrato # NULL /\ l1.contrato = NULL
              THEN [l1 EXCEPT !.contrato = itens[l1.item_contrato].contrato]
              ELSE l1
        e1 == IF /\ l2.item_contrato # NULL
                 /\ l2.contrato # NULL
                 /\ itens[l2.item_contrato].contrato # l2.contrato
              THEN {"item_contrato"} ELSE {}
        e2 == IF /\ l2.contrato # NULL
                 /\ l2.cliente # NULL
                 /\ contratos[l2.contrato].cliente # l2.cliente
              THEN {"cliente"} ELSE {}
        e3 == IF l2.categoria # NULL /\ categorias[l2.categoria] # l2.tipo
              THEN {"categoria"} ELSE {}
        e4 == IF l2.situacao = "PENDENTE" /\ l2.data_vencimento = NULL
              THEN {"data_vencimento"} ELSE {}
        e5 == IF /\ l2.situacao = "PAGO"
                 /\ l2.data_vencimento # NULL
                 /\ l2.data_vencimento > hoje
              THEN {"data_vencimento"} ELSE {}
    IN  [lanc |-> l2, errors |-> e1 \cup e2 \cup e3 \cup e4 \cup e5]

\* clean with the PAGO rule refusing a due date of today as well
CleanVencimentoHoje(l) ==
    LET l1 == IF l.item_contrato # NULL /\ l.contrato = NULL
              THEN [l EXCEPT !.contrato = itens[l.item_contrato].contrato]
              ELSE l
        l2 == IF l1.contrato # NULL /\ l1.cliente = NULL
              THEN [l1 EXCEPT !.cliente = contratos[l1.contrato].cliente]
              ELSE l1
        e1 == IF /\ l2.item_contrato # NULL
                 /\ l2.contrato # NULL
                 /\ itens[l2.item_contrato].contrato # l2.contrato
              THEN {"item_contrato"} ELSE {}
        e2 == IF /\ l2.contrato # NULL
                 /\ l2.cliente # NULL
                 /\ contratos[l2.contrato].cliente # l2.cliente
              THEN {"cliente"} ELSE {}
        e3 == IF l2.categoria # NULL /\ categorias[l2.categoria] # l2.tipo
              THEN {"categoria"} ELSE {}
        e4 == IF l2.situacao = "PENDENTE" /\ l2.data_vencimento = NULL
              THEN {"data_vencimento"} ELSE {}
        e5 == IF /\ l2.situacao = "PAGO"
                 /\ l2.data_vencimento # NULL
                 /\ l2.data_vencimento >= hoje
              THEN {"data_vencimento"} ELSE {}
    IN  [lanc |-> l2, errors |-> e1 \cup e2 \cup e3 \cup e4 \cup e5]

\* Lancamento.clean: the links are filled first, then every rule is evaluated
\* and the violated ones are collected, keyed by field
Clean(l) ==
    LET l1 == IF l.item_contrato # NULL /\ l.contrato = NULL
              THEN [l EXCEPT !.contrato = itens[l.item_contrato].contrato]
              ELSE l
        l2 == IF l1.contrato # NULL /\ l1.cliente = NULL
              THEN [l1 EXCEPT !.cliente = contratos[l1.contrato].cliente]
              ELSE l1
        e1 == IF /\ l2.item_contrato # NULL
                 /\ l2.contrato # NULL
                 /\ itens[l2.item_contrato].contrato # l2.contrato
              THEN {"item_contrato"} ELSE {}
        e2 == IF /\ l2.contrato # NULL
                 /\ l2.cliente # NULL
                 /\ contratos[l2.contrato].cliente # l2.cliente
              THEN {"cliente"} ELSE {}
        e3 == IF l2.categoria # NULL /\ categorias[l2.categoria] # l2.tipo
              THEN {"categoria"} ELSE {}
        e4 == IF l2.situacao = "PENDENTE" /\ l2.data_vencimento = NULL
              THEN {"data_vencimento"} ELSE {}
        e5 == IF /\ l2.situacao = "PAGO"
                 /\ l2.data_vencimento # NULL
                 /\ l2.data_vencimento > hoje
              THEN {"data_vencimento"} ELSE {}
    IN  [lanc |-> l2, errors |-> e1 \cup e2 \cup e3 \cup e4 \cup e5]

\* Model.clean_fields on the fields of Lancamento that the callers can get
\* wrong: the length of descricao, the required foreign keys and the
\* existence of the row a foreign key names
CleanFields(l) ==
    (IF l.descricao > DescricaoMaxLength THEN {"descricao"} ELSE {})
    \cup (IF l.categoria \notin DOMAIN categorias THEN {"categoria"} ELSE {})
    \cup (IF l.conta \notin DOMAIN contas THEN {"conta"} ELSE {})
    \cup (IF l.centro_custo # NULL /\ l.centro_custo \notin centros
          THEN {"centro_custo"} ELSE {})

\* full_clean that loses the errors of the two link rules
FullCleanSemVinculos(l) ==
    LET c == Clean(l)
    IN  [lanc |-> c.lanc,
         errors |-> CleanFields(l) \cup (c.errors \ {"item_contrato", "cliente"})]

\* full_clean that loses the error of the category rule
FullCleanSemCategoria(l) ==
    LET c == Clean(l)
    IN  [lanc |-> c.lanc, errors |-> CleanFields(l) \cup (c.errors \ {"categoria"})]

\* full_clean that reports one error and no more
FullCleanPrimeiroErro(l) ==
    LET c == Clean(l)
        todos == CleanFields(l) \cup c.errors
    IN  [lanc |-> c.lanc,
         errors |-> IF todos = {} THEN {} ELSE {CHOOSE e \in todos : TRUE}]

\* Model.full_clean: clean_fields, then clean, the errors of both collected
FullClean(l) ==
    LET c == Clean(l)
    IN  [lanc |-> c.lanc, errors |-> CleanFields(l) \cup c.errors]

\* save that stores the instance as it was given
SaveSemPreencher(l) == l

\* Lancamento.save: the links are filled again, with no check
Save(l) ==
    LET l1 == IF l.item_contrato # NULL /\ l.contrato = NULL
              THEN [l EXCEPT !.contrato = itens[l.item_contrato].contrato]
              ELSE l
    IN  IF l1.contrato # NULL /\ l1.cliente = NULL
        THEN [l1 EXCEPT !.cliente = contratos[l1.contrato].cliente]
        ELSE l1

\* categoria and conta are foreign keys without null=True: the INSERT of a
\* row that lacks one of them fails with IntegrityError
ViolaNotNull(l) == l.categoria = NULL \/ l.conta = NULL

\* the constraint with situacao among its fields
ViolaUniqueComSituacao(l, linhas) ==
    /\ l.item_contrato # NULL
    /\ l.competencia # NULL
    /\ \E i \in DOMAIN linhas :
          /\ linhas[i].item_contrato = l.item_contrato
          /\ linhas[i].competencia = l.competencia
          /\ linhas[i].tipo = l.tipo
          /\ linhas[i].situacao = l.situacao

\* uniq_item_contrato_competencia_tipo: would inserting l next to the rows
\* `linhas` break the conditional unique constraint?
ViolaUnique(l, linhas) ==
    /\ l.item_contrato # NULL
    /\ l.competencia # NULL
    /\ \E i \in DOMAIN linhas :
          /\ linhas[i].item_contrato = l.item_contrato
          /\ linhas[i].competencia = l.competencia
          /\ linhas[i].tipo = l.tipo

-----------------------------------------------------------------------------
(* ContaBancaria.saldo_atual *)

\* Sum("valor") over the rows of `linhas` on `conta` of the given tipo that are PAGO
RECURSIVE SomaPagos(_, _, _)
SomaPagos(linhas, conta, tipo) ==
    IF linhas = <<>> THEN 0
    ELSE LET l == Head(linhas)
         IN  (IF l.conta = conta /\ l.tipo = tipo /\ l.situacao = "PAGO"
              THEN l.valor ELSE 0)
             + SomaPagos(Tail(linhas), conta, tipo)

\* saldo_atual with the expenses added instead of subtracted
SaldoAtualSomaSaidas(conta) ==
    contas[conta] + SomaPagos(lancamentos, conta, "ENTRADA")
                  + SomaPagos(lancamentos, conta, "SAIDA")

\* ContaBancaria.saldo_atual, computed from the stored rows at each call
SaldoAtual(conta) ==
    LET entradas == SomaPagos(lancamentos, conta, "ENTRADA")
        saidas == SomaPagos(lancamentos, conta, "SAIDA")
    IN  contas[conta] + entradas - saidas

-----------------------------------------------------------------------------
(* services.gerar_lancamentos_recorrentes *)

\* date(referencia.year, referencia.month, 1)
Competencia(referencia) == Data(Ano(referencia), Mes(referencia), 1)

\* Contrato.vigente_hoje: active, begun, and not past its end if it has one
VigenteHoje(k) ==
    IF contratos[k].data_fim # NULL
    THEN /\ contratos[k].ativo
         /\ contratos[k].data_inicio <= hoje
         /\ hoje <= contratos[k].data_fim
    ELSE contratos[k].ativo /\ contratos[k].data_inicio <= hoje

\* the queryset restricted to the contracts that are in force today
SelecionadosVigentes ==
    Ordenado({i \in DOMAIN itens :
                /\ itens[i].tipo = "RECORRENTE"
                /\ contratos[itens[i].contrato].ativo
                /\ contratos[itens[i].contrato].dia_vencimento # NULL
                /\ VigenteHoje(itens[i].contrato)})

\* the queryset filtered on the other kind of item
SelecionadosTipoErrado ==
    Ordenado({i \in DOMAIN itens :
                /\ itens[i].tipo = "UNICO"
                /\ contratos[itens[i].contrato].ativo
                /\ contratos[itens[i].contrato].dia_vencimento # NULL})

\* the queryset `itens`: RECORRENTE items of active contracts that have a
\* billing day; it has no order_by, and the rows are taken in pk order
Selecionados ==
    Ordenado({i \in DOMAIN itens :
                /\ itens[i].tipo = "RECORRENTE"
                /\ contratos[itens[i].contrato].ativo
                /\ contratos[itens[i].contrato].dia_vencimento # NULL})

\* ja_existe that does not count a cancelled entry
JaExisteSemCancelados(linhas, item, competencia) ==
    \E i \in DOMAIN linhas :
        /\ linhas[i].item_contrato = item
        /\ linhas[i].competencia = competencia
        /\ linhas[i].tipo = "ENTRADA"
        /\ linhas[i].situacao # "CANCELADO"

\* ja_existe looking for the wrong tipo
JaExisteTipoErrado(linhas, item, competencia) ==
    \E i \in DOMAIN linhas :
        /\ linhas[i].item_contrato = item
        /\ linhas[i].competencia = competencia
        /\ linhas[i].tipo = "SAIDA"

\* ja_existe: is there a row of `linhas` for the item, the competence and ENTRADA?
JaExiste(linhas, item, competencia) ==
    \E i \in DOMAIN linhas :
        /\ linhas[i].item_contrato = item
        /\ linhas[i].competencia = competencia
        /\ linhas[i].tipo = "ENTRADA"

\* the generator's entry dated with the reference date instead of the competence
NovoLancamentoDataReferencia(item, p, vencimento) ==
    [tipo |-> "ENTRADA",
     cliente |-> contratos[itens[item].contrato].cliente,
     contrato |-> itens[item].contrato,
     item_contrato |-> item,
     categoria |-> p.categoria,
     centro_custo |-> p.centro_custo,
     conta |-> p.conta,
     descricao |-> servicos[itens[item].servico].nome + SufixoDescricao,
     valor |-> itens[item].valor_acordado,
     competencia |-> p.competencia,
     data |-> p.referencia,
     data_vencimento |-> vencimento,
     situacao |-> "PENDENTE",
     nota_fiscal_emitida |-> FALSE,
     eh_extra |-> FALSE]

\* the Lancamento(...) the generator builds for an item
NovoLancamento(item, p, vencimento) ==
    [tipo |-> "ENTRADA",
     cliente |-> contratos[itens[item].contrato].cliente,
     contrato |-> itens[item].contrato,
     item_contrato |-> item,
     categoria |-> p.categoria,
     centro_custo |-> p.centro_custo,
     conta |-> p.conta,
     descricao |-> servicos[itens[item].servico].nome + SufixoDescricao,
     valor |-> itens[item].valor_acordado,
     competencia |-> p.competencia,
     data |-> p.competencia,
     data_vencimento |-> vencimento,
     situacao |-> "PENDENTE",
     nota_fiscal_emitida |-> FALSE,
     eh_extra |-> FALSE]

\* the `for item in itens` loop run to its end or to the first exception:
\* linhas are the rows the transaction sees, criados the list being built.
\* A duplicate key is reported as the IntegrityError of save(); where
\* full_clean() validates constraints it is a ValidationError instead, and the
\* call fails just the same.
RECURSIVE GerarLoop(_, _, _, _, _)
GerarLoop(fila, linhas, criados, examinados, p) ==
    IF fila = <<>>
    THEN [linhas |-> linhas, criados |-> criados, erro |-> "ok",
          examinados |-> examinados]
    ELSE
      LET item == Head(fila)
          vencimento == DataVencimentoParaMes(
                            contratos[itens[item].contrato].dia_vencimento,
                            p.referencia)
          c == FullClean(NovoLancamento(item, p, vencimento))
          fim(erro) == [linhas |-> linhas, criados |-> criados, erro |-> erro,
                        examinados |-> examinados + 1]
      IN  IF vencimento = NULL THEN fim("ValueError")
          ELSE IF JaExiste(linhas, item, p.competencia)
          THEN GerarLoop(Tail(fila), linhas, criados, examinados + 1, p)
          ELSE IF c.errors # {} THEN fim("ValidationError")
          ELSE IF ViolaUnique(Save(c.lanc), linhas) THEN fim("IntegrityError")
          ELSE GerarLoop(Tail(fila),
                         Append(linhas, Save(c.lanc)),
                         Append(criados, Save(c.lanc)),
                         examinados + 1, p)

\* the body without the check of the required defaults
GerarSemObrigatorios(linhas, categoria, conta, centro_custo, data_referencia) ==
    LET referencia == IF data_referencia # NULL THEN data_referencia ELSE hoje
        p == [categoria |-> categoria, conta |-> conta,
              centro_custo |-> centro_custo, referencia |-> referencia,
              competencia |-> Competencia(referencia)]
    IN  GerarLoop(Selecionados, linhas, <<>>, 0, p)

\* the body of gerar_lancamentos_recorrentes on the rows `linhas`
Gerar(linhas, categoria, conta, centro_custo, data_referencia) ==
    LET referencia == IF data_referencia # NULL THEN data_referencia ELSE hoje
        p == [categoria |-> categoria, conta |-> conta,
              centro_custo |-> centro_custo, referencia |-> referencia,
              competencia |-> Competencia(referencia)]
    IN  IF categoria = NULL \/ conta = NULL
        THEN [linhas |-> linhas, criados |-> <<>>, erro |-> "ValueError",
              examinados |-> 0]
        ELSE GerarLoop(Selecionados, linhas, <<>>, 0, p)

\* a call that is no transaction: what the body wrote stays
AtomicSemRollback(antes, r) == r.linhas

\* @transaction.atomic: the rows of the table after the call, given the rows
\* before it and what the body did
Atomic(antes, r) == IF r.erro = "ok" THEN r.linhas ELSE antes

-----------------------------------------------------------------------------
(* Initial state *)

\* no call of gerar_lancamentos_recorrentes has just returned
Nenhuma ==
    [status |-> "nenhuma", categoria |-> NULL, conta |-> NULL,
     centro_custo |-> NULL, data_referencia |-> NULL, competencia |-> NULL,
     antes |-> <<>>, criados |-> <<>>, examinados |-> 0, descartados |-> 0,
     repetida |-> FALSE, criados_antes |-> 0]

\* the day the model starts on
DataInicial == Data(2025, 2, 10)

\* a Contrato row that began on 2025-01-01 and has no end, as in the tests
Contrato(cliente, ativo, dia_vencimento) ==
    [cliente |-> cliente, data_inicio |-> Data(2025, 1, 1), data_fim |-> NULL,
     ativo |-> ativo, dia_vencimento |-> dia_vencimento]

\* no instance is held in memory
SemInstancia == [op |-> "nenhuma", antes |-> NULL, lanc |-> NULL, errors |-> {}]

\* the registry the tests build, widened to one item of each kind the
\* generator's selection tells apart; the name of service 2 is short or too
\* long for descricao once the suffix is appended
InitCadastro ==
    /\ \E n \in {10, 250} :
          servicos = (1 :> [nome |-> 9]) @@ (2 :> [nome |-> n])
    /\ clientes = {1, 2}
    /\ contratos = (1 :> Contrato(1, TRUE, 31))
                @@ (2 :> Contrato(2, FALSE, 10))
                @@ (3 :> Contrato(2, TRUE, NULL))
    /\ itens = (1 :> [contrato |-> 1, servico |-> 1, tipo |-> "RECORRENTE",
                      valor_acordado |-> 10000])
            @@ (2 :> [contrato |-> 1, servico |-> 2, tipo |-> "RECORRENTE",
                      valor_acordado |-> 20000])
            @@ (3 :> [contrato |-> 1, servico |-> 1, tipo |-> "UNICO",
                      valor_acordado |-> 5000])
            @@ (4 :> [contrato |-> 2, servico |-> 1, tipo |-> "RECORRENTE",
                      valor_acordado |-> 7000])
            @@ (5 :> [contrato |-> 3, servico |-> 1, tipo |-> "RECORRENTE",
                      valor_acordado |-> 8000])

\* the day after DataInicial
Amanha == Data(2025, 2, 11)

\* the requests that may call the generator at the same time
Execs == {1, 2}

\* a request that is not inside gerar_lancamentos_recorrentes
Parado ==
    [pc |-> "parado", status |-> "nenhuma", categoria |-> NULL, conta |-> NULL,
     centro_custo |-> NULL, referencia |-> NULL, competencia |-> NULL,
     fila |-> <<>>, criados |-> <<>>, descartados |-> 0]

Init ==
    /\ hoje = DataInicial
    /\ InitCadastro
    /\ lancamentos = <<>>
    /\ ultima = Nenhuma
    /\ execs = [r \in Execs |-> Parado]
    /\ inst = SemInstancia

-----------------------------------------------------------------------------
(* Inputs *)

\* a Lancamento(...) as a caller or the admin add form builds it
Form(tipo, item, categoria, conta, valor, competencia, vencimento, situacao) ==
    [tipo |-> tipo, cliente |-> NULL, contrato |-> NULL, item_contrato |-> item,
     categoria |-> categoria, centro_custo |-> NULL, conta |-> conta,
     descricao |-> 20, valor |-> valor, competencia |-> competencia,
     data |-> DataInicial, data_vencimento |-> vencimento,
     situacao |-> situacao, nota_fiscal_emitida |-> FALSE, eh_extra |-> FALSE]

\* the entries the model creates by hand
Formularios ==
    { Form("SAIDA", NULL, 2, 1, 4030, NULL, DataInicial, "PAGO"),
      Form("ENTRADA", 1, 1, 1, 10050, Competencia(DataInicial), DataInicial, "PAGO"),
      Form("ENTRADA", 2, 1, 2, 3000, Data(2025, 1, 1), NULL, "CANCELADO"),
      Form("SAIDA", 1, 2, 2, 1500, Competencia(DataInicial),
           Amanha, "PENDENTE"),
      Form("ENTRADA", 1, 1, 1, 2500, NULL, NULL, "PENDENTE"),
      Form("ENTRADA", NULL, 1, 2, 600, NULL, Amanha, "PAGO") }

\* the arguments the model calls the generator with
Chamadas ==
    { <<1, 1, NULL, NULL>>,
      <<1, 1, NULL, Data(2025, 2, 20)>>,
      <<1, 2, 1, Data(2025, 2, 20)>>,
      <<2, 1, NULL, NULL>>,
      <<NULL, 1, NULL, NULL>>,
      <<1, NULL, 1, Data(2025, 2, 20)>> }

-----------------------------------------------------------------------------
(* Operations *)

\* the rows written by the open transactions other than r's (r = NULL: by all)
RECURSIVE Pendentes(_, _)
Pendentes(R, r) ==
    IF R = {} THEN <<>>
    ELSE LET x == CHOOSE y \in R : TRUE
         IN  (IF x # r /\ execs[x].pc \in {"itera", "cria"}
              THEN execs[x].criados ELSE <<>>)
             \o Pendentes(R \ {x}, r)

\* an INSERT waits while a row that another open transaction wrote holds the
\* same unique key: it goes on when that transaction has committed or rolled back
Espera(l, r) == ViolaUnique(l, Pendentes(Execs, r))

\* the rows of the table, the uncommitted ones counted
Ocupadas == Len(lancamentos) + Len(Pendentes(Execs, NULL))

\* full_clean() then save() of a new Lancamento: the admin add form, or a
\* caller that validates; a refused entry leaves the table as it was
CriarLancamento(f) ==
    LET c == FullClean(f)
    IN  /\ Ocupadas < MaxLanc
        /\ ~Espera(Save(c.lanc), NULL)
        /\ lancamentos' =
              IF c.errors = {} /\ ~ViolaUnique(Save(c.lanc), lancamentos)
              THEN Append(lancamentos, Save(c.lanc))
              ELSE lancamentos
        /\ ultima' = Nenhuma
        /\ UNCHANGED <<hoje, inst, clientes, servicos, contratos, itens, execs>>

\* save() of a new Lancamento with no full_clean(), as Lancamento.objects.create
\* does; the unique constraint still refuses a duplicate
SalvarDireto(f) ==
    /\ Ocupadas < MaxLanc
    /\ ~Espera(Save(f), NULL)
    /\ lancamentos' =
          IF ~ViolaUnique(Save(f), lancamentos)
          THEN Append(lancamentos, Save(f))
          ELSE lancamentos
    /\ ultima' = Nenhuma
    /\ UNCHANGED <<hoje, inst, clientes, servicos, contratos, itens, execs>>

\* queryset.update(situacao=...) on the selected rows
Update(sel, situacao) ==
    [i \in DOMAIN lancamentos |->
        IF i \in sel THEN [lancamentos[i] EXCEPT !.situacao = situacao]
        ELSE lancamentos[i]]

\* admin action marcar_como_pago
MarcarComoPago(sel) ==
    /\ lancamentos' = Update(sel, "PAGO")
    /\ ultima' = Nenhuma
    /\ UNCHANGED <<hoje, inst, clientes, servicos, contratos, itens, execs>>

\* admin action marcar_como_pendente
MarcarComoPendente(sel) ==
    /\ lancamentos' = Update(sel, "PENDENTE")
    /\ ultima' = Nenhuma
    /\ UNCHANGED <<hoje, inst, clientes, servicos, contratos, itens, execs>>

\* admin change list, list_editable: row i posted with a situacao and a
\* data_vencimento; the form validates the instance (full_clean) and saves it
\* only if it is valid
EditarLista(i, situacao, vencimento) ==
    LET c == FullClean([lancamentos[i] EXCEPT !.situacao = situacao,
                                              !.data_vencimento = vencimento])
    IN  /\ lancamentos' =
              IF c.errors = {}
              THEN [lancamentos EXCEPT ![i] = Save(c.lanc)]
              ELSE lancamentos
        /\ ultima' = Nenhuma
        /\ UNCHANGED <<hoje, inst, clientes, servicos, contratos, itens, execs>>

\* is this call the one right after a successful call for the same month with
\* the same defaults?
Repetida(categoria, conta, centro_custo, referencia) ==
    /\ ultima.status = "ok"
    /\ ultima.competencia = Competencia(referencia)
    /\ ultima.categoria = categoria
    /\ ultima.conta = conta
    /\ ultima.centro_custo = centro_custo

\* gerar_lancamentos_recorrentes called and run to its return or its exception
\* with no other request in between
GerarLancamentosRecorrentes(categoria, conta, centro_custo, data_referencia) ==
    LET r == Gerar(lancamentos, categoria, conta, centro_custo, data_referencia)
        referencia == IF data_referencia # NULL THEN data_referencia ELSE hoje
    IN  /\ \A x \in Execs : execs[x].pc = "parado"
        /\ Len(Atomic(lancamentos, r)) <= MaxLanc
        /\ lancamentos' = Atomic(lancamentos, r)
        /\ ultima' =
              [status |-> r.erro, categoria |-> categoria, conta |-> conta,
               centro_custo |-> centro_custo,
               data_referencia |-> data_referencia,
               competencia |-> Competencia(referencia),
               antes |-> lancamentos,
               criados |-> IF r.erro = "ok" THEN r.criados ELSE <<>>,
               examinados |-> r.examinados,
               descartados |-> IF r.erro = "ok" THEN 0 ELSE Len(r.criados),
               repetida |-> Repetida(categoria, conta, centro_custo, referencia),
               criados_antes |->
                   IF Repetida(categoria, conta, centro_custo, referencia)
                   THEN Len(ultima.criados) ELSE 0]
        /\ UNCHANGED <<hoje, inst, clientes, servicos, contratos, itens, execs>>

Next ==
    \/ \E f \in Formularios : CriarLancamento(f)
    \/ \E f \in Formularios : SalvarDireto(f)
    \/ \E sel \in (SUBSET DOMAIN lancamentos) \ {{}} : MarcarComoPago(sel)
    \/ \E sel \in (SUBSET DOMAIN lancamentos) \ {{}} : MarcarComoPendente(sel)
    \/ \E i \in DOMAIN lancamentos, s \in {"PENDENTE", "PAGO", "CANCELADO"} :
          EditarLista(i, s, lancamentos[i].data_vencimento)
    \/ \E a \in Chamadas : GerarLancamentosRecorrentes(a[1], a[2], a[3], a[4])

Spec == Init /\ [][Next]_vars

-----------------------------------------------------------------------------
(* gerar_lancamentos_recorrentes step by step, for calls that overlap.  Each
   call is one transaction; a transaction sees the committed rows and its own
   (READ COMMITTED), and an INSERT that meets the unique key in a committed row
   or in a row of its own fails with IntegrityError. *)

\* the arguments of the overlapping calls
ChamadasConc ==
    { <<1, 1, NULL, NULL>>,
      <<1, 2, 1, Data(2025, 2, 20)>> }

\* the entries created by hand while calls overlap
FormulariosConc ==
    { Form("ENTRADA", 1, 1, 1, 10050, Competencia(DataInicial), DataInicial, "PAGO"),
      Form("ENTRADA", 2, 1, 2, 3000, Competencia(DataInicial), DataInicial,
           "CANCELADO"),
      Form("SAIDA", 1, 2, 2, 1500, Competencia(DataInicial), Amanha, "PENDENTE"),
      Form("ENTRADA", 1, 1, 1, 2500, NULL, NULL, "PENDENTE") }

\* the call raises: its transaction is rolled back
Falha(r, erro) ==
    /\ lancamentos' = Atomic(lancamentos,
                             [erro |-> erro,
                              linhas |-> lancamentos \o execs[r].criados])
    /\ execs' = [execs EXCEPT ![r] =
                    [@ EXCEPT !.pc = "falhou", !.status = erro,
                              !.criados = <<>>,
                              !.descartados = Len(execs[r].criados)]]

\* lines 33-46: the defaults are checked, the dates computed and the queryset
\* read
Iniciar(r, categoria, conta, centro_custo, data_referencia) ==
    LET referencia == IF data_referencia # NULL THEN data_referencia ELSE hoje
    IN  /\ execs[r].pc = "parado"
        /\ execs' = [execs EXCEPT ![r] =
              IF categoria = NULL \/ conta = NULL
              THEN [Parado EXCEPT !.pc = "falhou", !.status = "ValueError",
                                  !.categoria = categoria, !.conta = conta]
              ELSE [pc |-> "itera", status |-> "nenhuma",
                    categoria |-> categoria, conta |-> conta,
                    centro_custo |-> centro_custo, referencia |-> referencia,
                    competencia |-> Competencia(referencia),
                    fila |-> Selecionados, criados |-> <<>>,
                    descartados |-> 0]]
        /\ UNCHANGED <<hoje, inst, clientes, servicos, contratos, itens, lancamentos, ultima>>

\* lines 48-58: the next item's due date and the ja_existe query
Verificar(r) ==
    LET item == Head(execs[r].fila)
        vencimento == DataVencimentoParaMes(
                          contratos[itens[item].contrato].dia_vencimento,
                          execs[r].referencia)
    IN  /\ execs[r].pc = "itera"
        /\ execs[r].fila # <<>>
        /\ IF vencimento = NULL THEN Falha(r, "ValueError")
           ELSE /\ execs' = [execs EXCEPT ![r] =
                     IF JaExiste(lancamentos \o execs[r].criados, item,
                                 execs[r].competencia)
                     THEN [@ EXCEPT !.fila = Tail(@)]
                     ELSE [@ EXCEPT !.pc = "cria"]]
                /\ UNCHANGED lancamentos
        /\ UNCHANGED <<hoje, inst, clientes, servicos, contratos, itens, ultima>>

\* lines 60-79: the entry is built, validated, saved and appended to criados
Criar(r) ==
    LET item == Head(execs[r].fila)
        vencimento == DataVencimentoParaMes(
                          contratos[itens[item].contrato].dia_vencimento,
                          execs[r].referencia)
        c == FullClean(NovoLancamento(item, execs[r], vencimento))
    IN  /\ execs[r].pc = "cria"
        /\ IF c.errors # {} THEN Falha(r, "ValidationError")
           ELSE /\ ~Espera(Save(c.lanc), r)
                /\ IF ViolaUnique(Save(c.lanc), lancamentos \o execs[r].criados)
                   THEN Falha(r, "IntegrityError")
                   ELSE /\ Ocupadas < MaxLanc
                        /\ execs' = [execs EXCEPT ![r] =
                              [@ EXCEPT !.pc = "itera", !.fila = Tail(@),
                                        !.criados = Append(@, Save(c.lanc))]]
                        /\ UNCHANGED lancamentos
        /\ UNCHANGED <<hoje, inst, clientes, servicos, contratos, itens, ultima>>

\* line 81: the loop is over, the call returns criados and its transaction
\* commits
Concluir(r) ==
    /\ execs[r].pc = "itera"
    /\ execs[r].fila = <<>>
    /\ lancamentos' = Atomic(lancamentos,
                             [erro |-> "ok",
                              linhas |-> lancamentos \o execs[r].criados])
    /\ execs' = [execs EXCEPT ![r] = [@ EXCEPT !.pc = "retornou", !.status = "ok"]]
    /\ UNCHANGED <<hoje, inst, clientes, servicos, contratos, itens, ultima>>

\* the request is over; the caller has the list or the exception
Retornar(r) ==
    /\ execs[r].pc \in {"retornou", "falhou"}
    /\ execs' = [execs EXCEPT ![r] = Parado]
    /\ UNCHANGED <<hoje, inst, clientes, servicos, contratos, itens, lancamentos, ultima>>

NextConc ==
    \/ \E r \in Execs, a \in ChamadasConc : Iniciar(r, a[1], a[2], a[3], a[4])
    \/ \E r \in Execs : Verificar(r)
    \/ \E r \in Execs : Criar(r)
    \/ \E r \in Execs : Concluir(r)
    \/ \E r \in Execs : Retornar(r)
    \/ \E f \in FormulariosConc : CriarLancamento(f)
    \/ \E f \in FormulariosConc : SalvarDireto(f)
    \/ \E sel \in (SUBSET DOMAIN lancamentos) \ {{}} : MarcarComoPago(sel)
    \/ \E sel \in (SUBSET DOMAIN lancamentos) \ {{}} : MarcarComoPendente(sel)

SpecConc == Init /\ [][NextConc]_vars

-----------------------------------------------------------------------------
(* The admin and the generator alone: every entry is created through
   full_clean, and the admin changes the entries it lists *)

NextAdmin ==
    \/ \E f \in Formularios : CriarLancamento(f)
    \/ \E sel \in (SUBSET DOMAIN lancamentos) \ {{}} : MarcarComoPago(sel)
    \/ \E sel \in (SUBSET DOMAIN lancamentos) \ {{}} : MarcarComoPendente(sel)
    \/ \E i \in DOMAIN lancamentos, s \in {"PENDENTE", "PAGO", "CANCELADO"} :
          \E v \in {NULL, lancamentos[i].data_vencimento, Amanha} :
              EditarLista(i, s, v)
    \/ \E a \in Chamadas : GerarLancamentosRecorrentes(a[1], a[2], a[3], a[4])

SpecAdmin == Init /\ [][NextAdmin]_vars

-----------------------------------------------------------------------------
(* The due date: one contract with any billing day the column can hold next
   to the validated range, and the generator called on any day of a few years *)

\* the days the generator is called on: the first and the 28th of every month
\* of a common year, a leap year, and the century years 1900 and 2000
Referencias ==
    {Data(ano, mes, dia) : ano \in {1900, 2000, 2024, 2025}, mes \in 1..12,
                           dia \in {1, 28}}

InitVenc ==
    /\ hoje \in Referencias
    /\ servicos = (1 :> [nome |-> 9])
    /\ clientes = {1}
    /\ \E d \in 0..32 : contratos = (1 :> Contrato(1, TRUE, d))
    /\ itens = (1 :> [contrato |-> 1, servico |-> 1, tipo |-> "RECORRENTE",
                      valor_acordado |-> 10000])
    /\ lancamentos = <<>>
    /\ ultima = Nenhuma
    /\ execs = [r \in Execs |-> Parado]
    /\ inst = SemInstancia

NextVenc ==
    \/ GerarLancamentosRecorrentes(1, 1, NULL, NULL)
    \/ GerarLancamentosRecorrentes(1, 1, NULL, hoje)

SpecVenc == InitVenc /\ [][NextVenc]_vars

-----------------------------------------------------------------------------
(* One Lancamento instance built in memory with any combination of links,
   category, situation and due date, then validated or saved *)

\* the day before DataInicial
Ontem == Data(2025, 2, 9)

\* Lancamento(...) with the links given one by one
Instancia(tipo, cliente, contrato, item, categoria, vencimento, situacao) ==
    [Form(tipo, item, categoria, 1, 1000, NULL, vencimento, situacao)
        EXCEPT !.cliente = cliente, !.contrato = contrato]

\* the instances the model builds: item 1 is of contract 1 (client 1), item 4
\* of contract 2 (client 2); the due date is absent, before, on or after today
Instancias ==
    {Instancia(tipo, cliente, contrato, item, categoria, vencimento, situacao) :
        tipo \in {"ENTRADA", "SAIDA"},
        cliente \in {NULL, 1, 2},
        contrato \in {NULL, 1, 2},
        item \in {NULL, 1, 4},
        categoria \in {NULL, 1, 2},
        vencimento \in {NULL, Ontem, DataInicial, Amanha},
        situacao \in {"PENDENTE", "PAGO", "CANCELADO"}}

InitClean ==
    /\ hoje = DataInicial
    /\ InitCadastro
    /\ lancamentos = <<>>
    /\ ultima = Nenhuma
    /\ execs = [r \in Execs |-> Parado]
    /\ \E l \in Instancias :
          inst = [op |-> "novo", antes |-> l, lanc |-> l, errors |-> {}]

\* inst.clean(): the instance is left with the links filled, and the call
\* raises ValidationError(errors) when errors is not empty
CleanInstancia ==
    /\ inst.op = "novo"
    /\ inst' = [op |-> "clean", antes |-> inst.lanc,
                lanc |-> Clean(inst.lanc).lanc,
                errors |-> Clean(inst.lanc).errors]
    /\ UNCHANGED <<hoje, clientes, servicos, contratos, itens, lancamentos,
                   ultima, execs>>

\* inst.full_clean()
FullCleanInstancia ==
    /\ inst.op = "novo"
    /\ inst' = [op |-> "full_clean", antes |-> inst.lanc,
                lanc |-> FullClean(inst.lanc).lanc,
                errors |-> FullClean(inst.lanc).errors]
    /\ UNCHANGED <<hoje, clientes, servicos, contratos, itens, lancamentos,
                   ultima, execs>>

\* inst.save() with no validation before it: the row is inserted unless a
\* constraint of the table refuses it
SaveInstancia ==
    /\ inst.op = "novo"
    /\ Len(lancamentos) < MaxLanc
    /\ lancamentos' =
          IF /\ ~ViolaNotNull(Save(inst.lanc))
             /\ ~ViolaUnique(Save(inst.lanc), lancamentos)
          THEN Append(lancamentos, Save(inst.lanc))
          ELSE lancamentos
    /\ inst' = [op |-> IF /\ ~ViolaNotNull(Save(inst.lanc))
                          /\ ~ViolaUnique(Save(inst.lanc), lancamentos)
                       THEN "save" ELSE "IntegrityError",
                antes |-> inst.lanc, lanc |-> Save(inst.lanc), errors |-> {}]
    /\ UNCHANGED <<hoje, clientes, servicos, contratos, itens, ultima, execs>>

NextClean ==
    \/ CleanInstancia
    \/ FullCleanInstancia
    \/ SaveInstancia

SpecClean == InitClean /\ [][NextClean]_vars

-----------------------------------------------------------------------------
(* Deleting rows of the registry: Model.delete() collects the rows that
   reference the deleted ones and applies each foreign key's on_delete *)

\* Contrato.cliente with no cascade: the contracts of a deleted client stay
ContratosDeNenhum(cs) == {}

\* Contrato.cliente is CASCADE: the contracts that go with the clients cs
ContratosDe(cs) == {k \in DOMAIN contratos : contratos[k].cliente \in cs}

\* ItemContrato.contrato is CASCADE: the items that go with the contracts ks
ItensDe(ks) == {i \in DOMAIN itens : itens[i].contrato \in ks}

\* the links of Lancamento treated as CASCADE: the referencing rows go too
SetNullCascade(linhas, cs, ks, is) ==
    SelectSeq(linhas, LAMBDA l : /\ l.cliente \notin cs
                                 /\ l.contrato \notin ks
                                 /\ l.item_contrato \notin is)

\* Lancamento.cliente, .contrato and .item_contrato are SET_NULL: the rows
\* stay, and a link to a deleted client, contract or item becomes NULL
SetNull(linhas, cs, ks, is) ==
    [n \in DOMAIN linhas |->
        [linhas[n] EXCEPT
            !.cliente = IF @ \in cs THEN NULL ELSE @,
            !.contrato = IF @ \in ks THEN NULL ELSE @,
            !.item_contrato = IF @ \in is THEN NULL ELSE @]]

\* the DELETEs and UPDATEs of one delete(): the clients cs, the contracts ks
\* and the items is go, the ledger rows are kept
Excluir(cs, ks, is) ==
    /\ clientes' = clientes \ cs
    /\ contratos' = [k \in DOMAIN contratos \ ks |-> contratos[k]]
    /\ itens' = [i \in DOMAIN itens \ is |-> itens[i]]
    /\ lancamentos' = SetNull(lancamentos, cs, ks, is)
    /\ ultima' = Nenhuma
    /\ UNCHANGED <<hoje, servicos, execs, inst>>

\* Cliente.delete()
ExcluirCliente(c) ==
    /\ c \in clientes
    /\ Excluir({c}, ContratosDe({c}), ItensDe(ContratosDe({c})))

\* Contrato.delete()
ExcluirContrato(k) ==
    /\ k \in DOMAIN contratos
    /\ Excluir({}, {k}, ItensDe({k}))

\* ItemContrato.delete()
ExcluirItem(i) ==
    /\ i \in DOMAIN itens
    /\ Excluir({}, {}, {i})

\* the entries created by hand next to the deletions: with the item only, with
\* the contract only, with the client only, and with links that disagree
FormulariosExcluir ==
    { Instancia("ENTRADA", NULL, NULL, 1, 1, DataInicial, "PAGO"),
      Instancia("ENTRADA", NULL, 2, NULL, 1, DataInicial, "PENDENTE"),
      Instancia("SAIDA", 2, NULL, NULL, 2, Ontem, "PAGO"),
      Instancia("ENTRADA", 1, 2, 1, 1, DataInicial, "PENDENTE") }

\* the form offers the rows that exist: a link of f names a row of its table
Existe(f) ==
    /\ f.cliente \in clientes \cup {NULL}
    /\ f.contrato \in DOMAIN contratos \cup {NULL}
    /\ f.item_contrato \in DOMAIN itens \cup {NULL}

NextExcluir ==
    \/ \E f \in FormulariosExcluir : Existe(f) /\ CriarLancamento(f)
    \/ GerarLancamentosRecorrentes(1, 1, NULL, NULL)
    \/ \E i \in DOMAIN lancamentos, s \in {"PAGO", "CANCELADO"} :
          EditarLista(i, s, lancamentos[i].data_vencimento)
    \/ \E c \in {1, 2} : ExcluirCliente(c)
    \/ \E k \in {1, 2} : ExcluirContrato(k)
    \/ \E i \in {1, 2} : ExcluirItem(i)

SpecExcluir == Init /\ [][NextExcluir]_vars

-----------------------------------------------------------------------------
(* The period of the contract: one contract that began before, within or
   after the month of the call and has no end or ended before, within or after
   it, active or not, with or without a billing day *)

InitVig ==
    /\ hoje = DataInicial
    /\ clientes = {1}
    /\ servicos = (1 :> [nome |-> 9])
    /\ \E inicio \in {Data(2024, 1, 1), Data(2025, 2, 5), Data(2025, 4, 1)},
          fim \in {NULL, Data(2025, 1, 31), Data(2025, 2, 20), Data(2025, 12, 31)},
          ativo \in BOOLEAN,
          dia \in {NULL, 10, 31} :
          contratos = (1 :> [cliente |-> 1, data_inicio |-> inicio,
                             data_fim |-> fim, ativo |-> ativo,
                             dia_vencimento |-> dia])
    /\ itens = (1 :> [contrato |-> 1, servico |-> 1, tipo |-> "RECORRENTE",
                      valor_acordado |-> 10000])
            @@ (2 :> [contrato |-> 1, servico |-> 1, tipo |-> "UNICO",
                      valor_acordado |-> 5000])
    /\ lancamentos = <<>>
    /\ ultima = Nenhuma
    /\ execs = [r \in Execs |-> Parado]
    /\ inst = SemInstancia

NextVig ==
    \/ GerarLancamentosRecorrentes(1, 1, NULL, NULL)
    \/ GerarLancamentosRecorrentes(1, 1, NULL, Data(2025, 3, 5))

SpecVig == InitVig /\ [][NextVig]_vars

-----------------------------------------------------------------------------
(* Claims on Spec *)

\* C1: a call of the generator right after a successful call for the same
\* month with the same defaults succeeds, creates and returns no entry and
\* leaves the ledger as it was.
C1_SegundaChamadaNaoCria ==
    ultima.repetida =>
        /\ ultima.status = "ok"
        /\ ultima.criados = <<>>
        /\ lancamentos = ultima.antes

\* the second of two calls, the first of which created both entries, on another
\* day of the same month
C1_Witness ==
    /\ ultima.repetida
    /\ ultima.criados_antes = 2
    /\ ultima.data_referencia # NULL

\* C3: a call of the generator that fails on validation leaves the ledger
\* exactly as it was before the call, entries created for earlier items of
\* the call included, and returns nothing.
C3_TudoOuNada ==
    ultima.status = "ValidationError" =>
        /\ lancamentos = ultima.antes
        /\ ultima.criados = <<>>

\* a call that failed on its second item after creating an entry for the first
C3_Witness ==
    /\ ultima.status = "ValidationError"
    /\ ultima.descartados > 0

\* C5: a successful call for month m creates exactly one entry for each
\* RECORRENTE item of an active contract with a billing day that had no
\* ENTRADA entry of competence m, none for any other item, and returns
\* exactly the entries it appended to the ledger.
C5_UmPorItemElegivel ==
    ultima.status = "ok" =>
        LET falta(i) ==
                ~\E k \in DOMAIN ultima.antes :
                    /\ ultima.antes[k].item_contrato = i
                    /\ ultima.antes[k].competencia = ultima.competencia
                    /\ ultima.antes[k].tipo = "ENTRADA"
            devidos == {i \in DOMAIN itens :
                          /\ itens[i].tipo = "RECORRENTE"
                          /\ contratos[itens[i].contrato].ativo
                          /\ contratos[itens[i].contrato].dia_vencimento # NULL
                          /\ falta(i)}
        IN  /\ \A i \in devidos :
                  Cardinality({k \in DOMAIN ultima.criados :
                                  ultima.criados[k].item_contrato = i}) = 1
            /\ \A k \in DOMAIN ultima.criados :
                  ultima.criados[k].item_contrato \in devidos
            /\ lancamentos = ultima.antes \o ultima.criados

\* a successful call that created an entry for one item and skipped the other,
\* already generated
C5_Witness ==
    /\ ultima.status = "ok"
    /\ Len(ultima.criados) = 1
    /\ \E k \in DOMAIN ultima.antes :
          /\ ultima.antes[k].item_contrato \in {1, 2}
          /\ ultima.antes[k].competencia = ultima.competencia
          /\ ultima.antes[k].tipo = "ENTRADA"

\* C7: every entry the generator creates is ENTRADA and PENDENTE, has
\* competence and date on the first day of the reference month (today's month
\* when no reference date is given), the value of its item, the item's
\* contract and that contract's client, the defaults given for category,
\* account and cost centre, and both flags false.
C7_CamposDoGerado ==
    \A k \in DOMAIN ultima.criados :
        LET l == ultima.criados[k]
            ref == IF ultima.data_referencia # NULL
                   THEN ultima.data_referencia ELSE hoje
            primeiro == (ref - Dia(ref)) + 1
        IN  /\ l.tipo = "ENTRADA"
            /\ l.situacao = "PENDENTE"
            /\ l.competencia = primeiro
            /\ l.data = primeiro
            /\ l.item_contrato \in DOMAIN itens
            /\ l.valor = itens[l.item_contrato].valor_acordado
            /\ l.contrato = itens[l.item_contrato].contrato
            /\ l.cliente = contratos[l.contrato].cliente
            /\ l.categoria = ultima.categoria
            /\ l.conta = ultima.conta
            /\ l.centro_custo = ultima.centro_custo
            /\ l.nota_fiscal_emitida = FALSE
            /\ l.eh_extra = FALSE

\* a call with a reference date and a cost centre that created two entries
C7_Witness ==
    /\ ultima.status = "ok"
    /\ Len(ultima.criados) = 2
    /\ ultima.centro_custo # NULL
    /\ ultima.data_referencia # NULL

\* C8: a call without the default category or without the default account
\* fails with ValueError before any item is examined and leaves the ledger
\* as it was.
C8_DefaultsObrigatorios ==
    (ultima.status # "nenhuma" /\ (ultima.categoria = NULL \/ ultima.conta = NULL)) =>
        /\ ultima.status = "ValueError"
        /\ ultima.examinados = 0
        /\ ultima.descartados = 0
        /\ ultima.criados = <<>>
        /\ lancamentos = ultima.antes

\* a call without the default account on a ledger that holds entries
C8_Witness ==
    /\ ultima.status = "ValueError"
    /\ ultima.conta = NULL
    /\ ultima.antes # <<>>

\* what row k adds to the balance of an account
Contribuicao(k, conta) ==
    LET l == lancamentos[k]
    IN  IF l.conta # conta \/ l.situacao # "PAGO" THEN 0
        ELSE IF l.tipo = "ENTRADA" THEN l.valor
        ELSE IF l.tipo = "SAIDA" THEN 0 - l.valor
        ELSE 0

\* the contributions of the rows K summed
RECURSIVE SomaContribuicoes(_, _)
SomaContribuicoes(K, conta) ==
    IF K = {} THEN 0
    ELSE LET k == CHOOSE x \in K : TRUE
         IN  Contribuicao(k, conta) + SomaContribuicoes(K \ {k}, conta)

\* C9: saldo_atual of an account is its opening balance plus its paid ENTRADA
\* values minus its paid SAIDA values, in cents; rows that are not PAGO and
\* rows of other accounts add nothing, and with no paid row the balance is
\* the opening balance.
C9_SaldoAtual ==
    \A conta \in DOMAIN contas :
        /\ SaldoAtual(conta) =
              contas[conta] + SomaContribuicoes(DOMAIN lancamentos, conta)
        /\ (\A k \in DOMAIN lancamentos :
               lancamentos[k].conta # conta \/ lancamentos[k].situacao # "PAGO")
           => SaldoAtual(conta) = contas[conta]

\* the ledger of the test: 100.50 received and 40.30 paid on account 1
C9_Witness ==
    /\ Len(lancamentos) = 2
    /\ \E k \in DOMAIN lancamentos :
          lancamentos[k].tipo = "ENTRADA" /\ lancamentos[k].valor = 10050
    /\ \E k \in DOMAIN lancamentos :
          lancamentos[k].tipo = "SAIDA" /\ lancamentos[k].valor = 4030
    /\ \A k \in DOMAIN lancamentos :
          lancamentos[k].conta = 1 /\ lancamentos[k].situacao = "PAGO"
    /\ SaldoAtual(1) = 6020

-----------------------------------------------------------------------------
(* Claims on SpecConc *)

\* call r ended with the constraint's error on the item for which call q, for
\* the same month, created and committed the entry
CorridaPerdida(r, q) ==
    /\ r # q
    /\ execs[r].status = "IntegrityError"
    /\ execs[q].status = "ok"
    /\ \E k \in DOMAIN execs[q].criados :
          /\ execs[q].criados[k].item_contrato = Head(execs[r].fila)
          /\ execs[q].criados[k].competencia = execs[r].competencia

\* C2: the committed ledger never holds two entries with the same item,
\* competence and tipo when item and competence are both set.
C2_UnicoPorItemCompetenciaTipo ==
    \A i, j \in DOMAIN lancamentos :
        (/\ i # j
         /\ lancamentos[i].item_contrato # NULL
         /\ lancamentos[i].competencia # NULL
         /\ lancamentos[i].item_contrato = lancamentos[j].item_contrato
         /\ lancamentos[i].competencia = lancamentos[j].competencia)
        => lancamentos[i].tipo # lancamentos[j].tipo

\* two overlapping calls for the same month: one committed the item's entry,
\* the other's INSERT was refused by the constraint
C2_Witness ==
    \E r, q \in Execs :
        /\ CorridaPerdida(r, q)
        /\ Cardinality({i \in DOMAIN lancamentos :
                           /\ lancamentos[i].item_contrato = Head(execs[r].fila)
                           /\ lancamentos[i].competencia = execs[r].competencia
                           /\ lancamentos[i].tipo = "ENTRADA"}) = 1

\* C4: when the unique constraint fires in one of two racing calls, that call
\* does not fail: no call ends with the constraint's error.
C4_CorridaNaoFalha ==
    \A r, q \in Execs : ~CorridaPerdida(r, q)

-----------------------------------------------------------------------------
(* Claims on SpecVenc *)

\* C6: with a billing day in 1..31 the generator raises no date error, and the
\* due date of the entry it creates is in the reference date's year and month,
\* on the billing day or on the month's last day when the month is shorter
\* (February: the 28th, the 29th in a leap year).
C6_VencimentoNoMes ==
    (ultima.status # "nenhuma" /\ contratos[1].dia_vencimento \in 1..31) =>
        /\ ultima.status = "ok"
        /\ \A k \in DOMAIN ultima.criados :
              LET v == ultima.criados[k].data_vencimento
                  ref == IF ultima.data_referencia # NULL
                         THEN ultima.data_referencia ELSE hoje
                  ano == ref \div 10000
                  mes == (ref \div 100) % 100
                  bissexto == (ano % 4 = 0 /\ ano % 100 # 0) \/ ano % 400 = 0
                  ultimo == CASE mes \in {1, 3, 5, 7, 8, 10, 12} -> 31
                              [] mes \in {4, 6, 9, 11} -> 30
                              [] mes = 2 -> IF bissexto THEN 29 ELSE 28
                  dia == contratos[1].dia_vencimento
              IN  /\ v \div 10000 = ano
                  /\ (v \div 100) % 100 = mes
                  /\ v % 100 = (IF dia <= ultimo THEN dia ELSE ultimo)

\* billing day 31 and a reference date in February of a leap year: the 29th
C6_Witness ==
    /\ contratos[1].dia_vencimento = 31
    /\ hoje = Data(2024, 2, 28)
    /\ Len(ultima.criados) = 1
    /\ ultima.criados[1].data_vencimento = Data(2024, 2, 29)

-----------------------------------------------------------------------------
(* Claims on SpecAdmin *)

\* C10: whatever the admin and the generator did, every PENDENTE entry has a
\* due date and no PAGO entry has a due date after today.
C10_SoCaminhoValidado ==
    \A i \in DOMAIN lancamentos :
        /\ lancamentos[i].situacao = "PENDENTE"
              => lancamentos[i].data_vencimento # NULL
        /\ lancamentos[i].situacao = "PAGO"
              => ~(lancamentos[i].data_vencimento # NULL
                   /\ lancamentos[i].data_vencimento > hoje)

-----------------------------------------------------------------------------
(* Claims on SpecClean *)

\* C11: validating an entry that has only the item set fills the contract
\* with the item's contract and the client with that contract's client before
\* the rules are evaluated, so it gets no item/contract and no client/contract
\* error; an entry with the contract set and the client blank gets the client
\* of the contract.
C11_PreencheAntesDasRegras ==
    inst.op \in {"clean", "full_clean"} =>
        /\ ( /\ inst.antes.item_contrato # NULL
             /\ inst.antes.contrato = NULL
             /\ inst.antes.cliente = NULL ) =>
               /\ inst.lanc.contrato = itens[inst.antes.item_contrato].contrato
               /\ inst.lanc.cliente =
                     contratos[itens[inst.antes.item_contrato].contrato].cliente
               /\ "item_contrato" \notin inst.errors
               /\ "cliente" \notin inst.errors
        /\ (inst.antes.contrato # NULL /\ inst.antes.cliente = NULL) =>
               inst.lanc.cliente = contratos[inst.antes.contrato].cliente

\* an entry with only item 4 set has been validated and found valid: it now
\* carries contract 2 and client 2
C11_Witness ==
    /\ inst.op = "full_clean"
    /\ inst.antes.item_contrato = 4
    /\ inst.antes.contrato = NULL
    /\ inst.antes.cliente = NULL
    /\ inst.lanc.contrato = 2
    /\ inst.lanc.cliente = 2
    /\ inst.errors = {}

\* C12: validation rejects an entry whose item and contract are both set when
\* the item is of another contract (error keyed item_contrato) and an entry
\* whose contract and client are both set when the client is not the
\* contract's (error keyed cliente); neither error is reported when the links
\* agree.
C12_VinculosCoerentes ==
    inst.op \in {"clean", "full_clean"} =>
        /\ ( /\ inst.antes.item_contrato # NULL
             /\ inst.antes.contrato # NULL
             /\ itens[inst.antes.item_contrato].contrato # inst.antes.contrato )
               => "item_contrato" \in inst.errors
        /\ ( /\ inst.antes.contrato # NULL
             /\ inst.antes.cliente # NULL
             /\ contratos[inst.antes.contrato].cliente # inst.antes.cliente )
               => "cliente" \in inst.errors
        /\ "item_contrato" \in inst.errors =>
               /\ inst.lanc.item_contrato # NULL
               /\ inst.lanc.contrato # NULL
               /\ itens[inst.lanc.item_contrato].contrato # inst.lanc.contrato
        /\ "cliente" \in inst.errors =>
               /\ inst.lanc.contrato # NULL
               /\ inst.lanc.cliente # NULL
               /\ contratos[inst.lanc.contrato].cliente # inst.lanc.cliente

\* item 1 of contract 1 with contract 2 and client 1, validated: both link
\* errors are reported
C12_Witness ==
    /\ inst.op = "full_clean"
    /\ inst.antes.item_contrato = 1
    /\ inst.antes.contrato = 2
    /\ inst.antes.cliente = 1
    /\ {"item_contrato", "cliente"} \subseteq inst.errors

\* C13: validation reports a due-date error exactly when the situation is
\* PENDENTE and the due date is absent, or the situation is PAGO and the due
\* date is strictly after today.
C13_ErroDeVencimento ==
    inst.op \in {"clean", "full_clean"} =>
        ( "data_vencimento" \in inst.errors
          <=> \/ /\ inst.antes.situacao = "PENDENTE"
                 /\ inst.antes.data_vencimento = NULL
              \/ /\ inst.antes.situacao = "PAGO"
                 /\ inst.antes.data_vencimento # NULL
                 /\ inst.antes.data_vencimento > hoje )

\* a PAGO entry due tomorrow has been validated and refused on its due date
C13_Witness ==
    /\ inst.op = "full_clean"
    /\ inst.antes.situacao = "PAGO"
    /\ inst.antes.data_vencimento = Amanha
    /\ "data_vencimento" \in inst.errors

\* C14: validation reports a category-mismatch error (keyed categoria)
\* exactly when the category is set and the entry's kind differs from the
\* category's kind.  full_clean also reports a missing category under the
\* same key, so for full_clean the equivalence is stated where a category is set.
C14_ErroDeCategoria ==
    /\ inst.op = "clean" =>
          ( "categoria" \in inst.errors
            <=> /\ inst.antes.categoria # NULL
                /\ categorias[inst.antes.categoria] # inst.antes.tipo )
    /\ (inst.op = "full_clean" /\ inst.antes.categoria # NULL) =>
          ( "categoria" \in inst.errors
            <=> categorias[inst.antes.categoria] # inst.antes.tipo )

\* an ENTRADA entry with the SAIDA category has been validated and refused on
\* its category alone
C14_Witness ==
    /\ inst.op = "full_clean"
    /\ inst.antes.tipo = "ENTRADA"
    /\ inst.antes.categoria = 2
    /\ inst.errors = {"categoria"}

\* the fields of the rules that the validated instance l violates
RegrasVioladas(l) ==
    {k \in {"item_contrato", "cliente", "categoria", "data_vencimento"} :
        \/ /\ k = "item_contrato"
           /\ l.item_contrato # NULL
           /\ l.contrato # NULL
           /\ itens[l.item_contrato].contrato # l.contrato
        \/ /\ k = "cliente"
           /\ l.contrato # NULL
           /\ l.cliente # NULL
           /\ contratos[l.contrato].cliente # l.cliente
        \/ /\ k = "categoria"
           /\ l.categoria # NULL
           /\ categorias[l.categoria] # l.tipo
        \/ /\ k = "data_vencimento"
           /\ \/ l.situacao = "PENDENTE" /\ l.data_vencimento = NULL
              \/ /\ l.situacao = "PAGO"
                 /\ l.data_vencimento # NULL
                 /\ l.data_vencimento > hoje}

\* C15: validation evaluates every rule and raises one error map with an
\* entry for each violated rule, not only for the first; clean() succeeds
\* exactly when no rule is violated.
C15_TodosOsErros ==
    /\ inst.op = "clean" => inst.errors = RegrasVioladas(inst.lanc)
    /\ inst.op = "full_clean" => RegrasVioladas(inst.lanc) \subseteq inst.errors

\* an entry that breaks the four rules at once has been validated: the error
\* map has the four keys
C15_Witness ==
    /\ inst.op = "full_clean"
    /\ inst.antes.item_contrato = 1
    /\ inst.antes.contrato = 2
    /\ inst.antes.cliente = 1
    /\ inst.antes.categoria = 2
    /\ inst.antes.tipo = "ENTRADA"
    /\ inst.antes.situacao = "PENDENTE"
    /\ inst.antes.data_vencimento = NULL
    /\ inst.errors = {"item_contrato", "cliente", "categoria", "data_vencimento"}

\* C16: saving an entry without validating it still fills a blank contract
\* from the item and a blank client from the contract (given or just derived)
\* and checks none of the rules: an entry with mismatching links, a category
\* of the other kind or PENDENTE with no due date is stored without error,
\* every other field as it was given.
C16_SaveSemValidar ==
    (inst.op \in {"save", "IntegrityError"} /\ inst.antes.categoria # NULL) =>
        LET a == inst.antes
            contrato == IF a.contrato # NULL THEN a.contrato
                        ELSE IF a.item_contrato # NULL
                        THEN itens[a.item_contrato].contrato
                        ELSE NULL
            cliente == IF a.cliente # NULL THEN a.cliente
                       ELSE IF contrato # NULL THEN contratos[contrato].cliente
                       ELSE NULL
        IN  /\ inst.op = "save"
            /\ Len(lancamentos) = 1
            /\ lancamentos[1] = [a EXCEPT !.contrato = contrato,
                                          !.cliente = cliente]

\* an entry with only item 4 set, the category of the other kind and PENDENTE
\* with no due date has been saved directly: the row carries contract 2 and
\* client 2
C16_Witness ==
    /\ inst.op = "save"
    /\ inst.antes.item_contrato = 4
    /\ inst.antes.contrato = NULL
    /\ inst.antes.cliente = NULL
    /\ inst.antes.tipo = "ENTRADA"
    /\ inst.antes.categoria = 2
    /\ inst.antes.situacao = "PENDENTE"
    /\ inst.antes.data_vencimento = NULL
    /\ Len(lancamentos) = 1
    /\ lancamentos[1].contrato = 2
    /\ lancamentos[1].cliente = 2

-----------------------------------------------------------------------------
(* Claims on SpecExcluir *)

\* C17: deleting a client, a contract or a contract item deletes no ledger
\* entry: the entries, their values and situations and every account's
\* balance are as before, and only the links to the deleted rows become NULL;
\* a contract goes with its items, a client with its contracts.
C17_ExcluirNaoApagaLancamento ==
    [][ (clientes' # clientes \/ contratos' # contratos \/ itens' # itens) =>
          /\ Len(lancamentos') = Len(lancamentos)
          /\ \A n \in DOMAIN lancamentos :
                /\ lancamentos'[n] =
                      [lancamentos[n] EXCEPT
                          !.cliente = lancamentos'[n].cliente,
                          !.contrato = lancamentos'[n].contrato,
                          !.item_contrato = lancamentos'[n].item_contrato]
                /\ lancamentos'[n].cliente =
                      IF lancamentos[n].cliente \in clientes'
                      THEN lancamentos[n].cliente ELSE NULL
                /\ lancamentos'[n].contrato =
                      IF lancamentos[n].contrato \in DOMAIN contratos'
                      THEN lancamentos[n].contrato ELSE NULL
                /\ lancamentos'[n].item_contrato =
                      IF lancamentos[n].item_contrato \in DOMAIN itens'
                      THEN lancamentos[n].item_contrato ELSE NULL
          /\ \A c \in DOMAIN contas : SaldoAtual(c)' = SaldoAtual(c)
          /\ \A i \in DOMAIN itens' : itens'[i].contrato \in DOMAIN contratos'
          /\ \A k \in DOMAIN contratos' : contratos'[k].cliente \in clientes'
      ]_vars

\* client 1 has been deleted after a paid income entry was created for item
\* 1: the entry is still there, paid, with its value and no link, and it
\* counts in the balance of its account
C17_Witness ==
    /\ 1 \notin clientes
    /\ 1 \notin DOMAIN contratos
    /\ 1 \notin DOMAIN itens
    /\ \E n \in DOMAIN lancamentos :
          /\ lancamentos[n].tipo = "ENTRADA"
          /\ lancamentos[n].valor = 1000
          /\ lancamentos[n].situacao = "PAGO"
          /\ lancamentos[n].cliente = NULL
          /\ lancamentos[n].contrato = NULL
          /\ lancamentos[n].item_contrato = NULL
    /\ SaldoAtual(1) = 1000

\* C20: after any validated creations, generator runs, situation changes and
\* deletions of clients, contracts and items, every stored entry with an item
\* has that item's contract, and every stored entry with a contract has that
\* contract's client.
C20_VinculosPersistidos ==
    \A n \in DOMAIN lancamentos :
        /\ lancamentos[n].item_contrato # NULL =>
              /\ lancamentos[n].item_contrato \in DOMAIN itens
              /\ lancamentos[n].contrato =
                    itens[lancamentos[n].item_contrato].contrato
        /\ lancamentos[n].contrato # NULL =>
              /\ lancamentos[n].contrato \in DOMAIN contratos
              /\ lancamentos[n].cliente =
                    contratos[lancamentos[n].contrato].cliente

\* item 1 has been deleted under a generated entry, which keeps contract 1
\* and client 1, next to an entry created by hand with contract 2 only
C20_Witness ==
    /\ 1 \notin DOMAIN itens
    /\ \E n \in DOMAIN lancamentos :
          /\ lancamentos[n].valor = 10000
          /\ lancamentos[n].item_contrato = NULL
          /\ lancamentos[n].contrato = 1
          /\ lancamentos[n].cliente = 1
    /\ \E n \in DOMAIN lancamentos :
          /\ lancamentos[n].valor = 1000
          /\ lancamentos[n].contrato = 2
          /\ lancamentos[n].cliente = 2

-----------------------------------------------------------------------------
(* More claims on Spec *)

\* C18: the generator's duplicate check ignores the situation: once an
\* ENTRADA entry exists for an item and a competence, PENDENTE, PAGO or
\* CANCELADO, no later run for that month creates another entry for the item
\* (nor fails trying to); cancelling a generated entry does not bring it back.
C18_SituacaoNaoRegenera ==
    ultima.status \in {"ok", "ValidationError", "IntegrityError"} =>
        /\ ultima.status # "IntegrityError"
        /\ \A k \in DOMAIN ultima.criados :
              ~\E n \in DOMAIN ultima.antes :
                  /\ ultima.antes[n].item_contrato =
                        ultima.criados[k].item_contrato
                  /\ ultima.antes[n].competencia = ultima.competencia
                  /\ ultima.antes[n].tipo = "ENTRADA"
        /\ \A n \in DOMAIN ultima.antes :
              ultima.antes[n] \in {lancamentos[m] : m \in DOMAIN lancamentos}

\* a run has returned normally with nothing created while the entry it had
\* generated for item 1 in an earlier run was cancelled
C18_Witness ==
    /\ ultima.status = "ok"
    /\ ultima.criados = <<>>
    /\ lancamentos = ultima.antes
    /\ \E n \in DOMAIN lancamentos :
          /\ lancamentos[n].item_contrato = 1
          /\ lancamentos[n].competencia = ultima.competencia
          /\ lancamentos[n].tipo = "ENTRADA"
          /\ lancamentos[n].situacao = "CANCELADO"
          /\ lancamentos[n].valor = itens[1].valor_acordado
          /\ lancamentos[n].descricao = servicos[1].nome + SufixoDescricao

-----------------------------------------------------------------------------
(* Claims on SpecVig *)

\* C19: the generator selects by the item's kind, the contract's active flag
\* and its billing day, never by the contract's start or end date: a run
\* that succeeds creates exactly one entry for each RECORRENTE item of an
\* active contract with a billing day that had none for the month, also when
\* the contract ended before the month or begins after it.
C19_SelecaoIgnoraVigencia ==
    ultima.status = "ok" =>
        LET faltam == {i \in DOMAIN itens :
                         /\ itens[i].tipo = "RECORRENTE"
                         /\ contratos[itens[i].contrato].ativo
                         /\ contratos[itens[i].contrato].dia_vencimento # NULL
                         /\ ~\E n \in DOMAIN ultima.antes :
                               /\ ultima.antes[n].item_contrato = i
                               /\ ultima.antes[n].competencia = ultima.competencia
                               /\ ultima.antes[n].tipo = "ENTRADA"}
        IN  /\ {ultima.criados[k].item_contrato : k \in DOMAIN ultima.criados}
                  = faltam
            /\ Len(ultima.criados) = Cardinality(faltam)

\* a run for March 2025 has created the entry of item 1 although the
\* contract ended in January and is not in force today
C19_Witness ==
    /\ ultima.status = "ok"
    /\ Len(ultima.criados) = 1
    /\ ultima.criados[1].item_contrato = 1
    /\ ultima.competencia = Data(2025, 3, 1)
    /\ contratos[1].data_fim = Data(2025, 1, 31)
    /\ ~VigenteHoje(1)

====
